---------------------------- MODULE Spec2Model ----------------------------
(***************************************************************************)
(* A model of the JACK backend of RtMidi17 (rtmidi17/detail/jack.hpp):     *)
(* the shared block jack_data, the input backend midi_in_jack with its     *)
(* process callback jackProcessIn, and the output backend midi_out_jack    *)
(* with send_message, the close handshake and jackProcessOut.              *)
(*                                                                         *)
(* Two threads act on one backend instance: the user thread (upc) that     *)
(* calls the public operations, and the server's real-time thread (rpc)    *)
(* that runs the process callback.  Each statement of the code that reads  *)
(* or writes state shared between the two threads is a step of its own.    *)
(* One instance is modelled at a time; "kind" says which backend it is.    *)
(***************************************************************************)
EXTENDS Integers, Naturals, Sequences, FiniteSets, TLC

(***************************************************************************)
(* Bounds of the model.                                                    *)
(***************************************************************************)
\* jack_data::ringbuffer_size, scaled down (the source has 16384).
ringbuffer_size == 16
\* Number of send_message calls in a behaviour.
MaxSends == 3
\* Number of successful port registrations in a behaviour.
MaxOpens == 2
\* Number of times connect() creates the ringbuffer pair.
MaxCreates == 2
\* Number of peer ports the server may list.
MaxPeers == 1
\* Number of MIDI events the server presents to the input callback.
MaxEvents == 3
\* Largest value of the server's microsecond clock.
MaxClock == 3
\* Capacity given to the application's input queue.
queueSizeLimit == 1

(***************************************************************************)
(* Program constants.                                                      *)
(***************************************************************************)
\* sizeof(int): the width of one length record.
sizeof_int == 4

NULL == 0
\* The client handle jack_client_open returns.
CLIENT == 1

(***************************************************************************)
(* Payloads send_message is called with: two bytes, seven bytes, and       *)
(* sixteen bytes, which is more than a ringbuffer of 16 bytes holds.       *)
(***************************************************************************)
Payloads ==
  { <<1, 2>>, <<4, 5, 6, 7, 8, 9, 10>>,
    <<11, 12, 13, 14, 15, 16, 17, 18, 19, 20, 21, 22, 23, 24, 25, 26>> }

\* Names of the peer ports jack_get_ports lists.
PortNames == <<"peer:1", "peer:2", "peer:3">>
\* What a read past the end of the port list may yield as a C string.
GARBAGE == "<garbage>"

Min(a, b) == IF a < b THEN a ELSE b

Take(s, n) == SubSeq(s, 1, Min(n, Len(s)))
Drop(s, n) == SubSeq(s, Min(n, Len(s)) + 1, Len(s))

RECURSIVE Pow2AtLeast(_, _)
Pow2AtLeast(p, sz) == IF p >= sz THEN p ELSE Pow2AtLeast(2 * p, sz)

\* jack_ringbuffer_create(sz): the size is rounded up to a power of two, and
\* one byte is always kept free, so size - 1 bytes can be held.
RbCapacity == Pow2AtLeast(2, ringbuffer_size) - 1

\* jack_ringbuffer_read_space / jack_ringbuffer_write_space.
jack_ringbuffer_read_space(rb) == Len(rb)
jack_ringbuffer_write_space(rb) == RbCapacity - Len(rb)

\* jack_ringbuffer_write(rb, src, cnt): writes min(cnt, write_space) bytes.
jack_ringbuffer_write(rb, src) ==
  rb \o Take(src, jack_ringbuffer_write_space(rb))

\* jack_ringbuffer_read(rb, dest, cnt): reads min(cnt, read_space) bytes.
\* A negative cnt is a huge size_t: everything readable is read.
ReadCount(rb, cnt) == IF cnt < 0 THEN Len(rb) ELSE Min(cnt, Len(rb))
jack_ringbuffer_read_data(rb, cnt) == Take(rb, ReadCount(rb, cnt))
jack_ringbuffer_read_rest(rb, cnt) == Drop(rb, ReadCount(rb, cnt))

\* (char*)&nBytes, sizeof(nBytes): the length record, little-endian bytes.
RECURSIVE EncodeBytes(_, _)
EncodeBytes(n, w) ==
  IF w = 0 THEN <<>> ELSE <<n % 256>> \o EncodeBytes(n \div 256, w - 1)
\* The record written with the width of a size_t.
EncodeInt_size_t(n) == EncodeBytes(n, 2 * sizeof_int)
EncodeInt(n) == EncodeBytes(n, sizeof_int)

\* int space{}; jack_ringbuffer_read(buffSize, (char*)&space, sizeof(int)):
\* the bytes read overwrite the low-address bytes of a zeroed int.
RECURSIVE DecodeBytes(_)
DecodeBytes(bs) ==
  IF bs = <<>> THEN 0 ELSE Head(bs) + 256 * DecodeBytes(Tail(bs))
DecodeInt(bs) == DecodeBytes(bs)

\* jack_midi_event_reserve(buff, 0, space) returns NULL for a size the port
\* buffer cannot hold; the port buffer is taken to hold whatever the payload
\* ringbuffer can.
ReserveOk(sz) == sz >= 0 /\ sz <= RbCapacity

(***************************************************************************)
(* rtmidi::semaphore (semaphore.hpp): a binary semaphore.                  *)
(***************************************************************************)
notify(s) == 1
\* try_wait returns false when the semaphore was signalled and consumed.
try_wait_ret(s) == ~(s > 0)
try_wait_sem(s) == IF s > 0 THEN s - 1 ELSE s

\* (time - lastTime) * 0.000001: microseconds scaled to seconds, kept as the
\* exact fraction num / den.
ToSeconds(us) == [num |-> us, den |-> 1000000]
\* message::timestamp of a freshly constructed message.
DefaultTimestamp == [num |-> 0, den |-> 1]

VARIABLES
  kind,          \* "in": midi_in_jack, "out": midi_out_jack
  serverUp,      \* is the JACK server running
  peers,         \* number of peer ports jack_get_ports lists
  \* jack_data
  client, port, buffSize, buffMessage, lastTime, sem_cleanup, sem_needpost,
  \* midi_in_api::in_data
  firstMessage, continueSysex, userCallback, queue,
  \* the server
  regPorts,      \* port handles registered with the server
  nextPort,      \* the handle the next jack_port_register returns
  unregLog,      \* handles passed to jack_port_unregister, in order
  clock,         \* jack_get_time()
  \* the user thread
  upc, umsg, ret,
  \* the real-time thread
  rpc, rport, space, inEvents, evIndex, rlast,
  \* history
  rbCreated,     \* number of ringbuffer pairs created
  sent,          \* payloads passed to send_message, in order
  sentNoPort,    \* was send_message called with no port registered
  sentWithPort,  \* was send_message called with a port registered
  emitted,       \* events written to the port buffer, in order
  presented,     \* number of events the server has presented
  delivered,     \* messages handed to the callback or the queue, in order
  hsSinceNotify, \* did a callback observe the request since the last notify
  closeTimedOut, \* did the current close_port leave its wait by timeout
  anyTimeout,    \* did any close_port leave its wait by timeout
  staleUse,      \* did the callback use a port handle that is not registered
  nReq, nAck,    \* notifications of sem_needpost / of sem_cleanup
  \* the instance's teardown
  destroying,    \* has the destructor been called
  ringFreed,     \* number of jack_ringbuffer_free calls
  clientClosed   \* number of jack_client_close calls

jdata == <<client, port, buffSize, buffMessage, lastTime, sem_cleanup, sem_needpost>>
indata == <<firstMessage, continueSysex, userCallback, queue>>
server == <<serverUp, peers, regPorts, nextPort, unregLog, clock>>
uthread == <<upc, umsg, ret>>
rthread == <<rpc, rport, space, inEvents, evIndex, rlast>>
history == <<rbCreated, sent, sentNoPort, emitted, presented, delivered,
             hsSinceNotify, closeTimedOut, anyTimeout, staleUse, nReq, nAck>>
lifetime == <<destroying, ringFreed, clientClosed>>
vars == <<kind, jdata, indata, server, uthread, rthread, history, sentWithPort,
          lifetime>>

\* What the last public operation returned or raised.
\* op, arg: the operation, and the port number get_port_name was called with; val, count: the string or the
\* number returned; warned, err: a warning was emitted, a driver error was
\* raised; oob: memory outside the port list was read; hadPort: data.port was
\* set when the operation was called; conn: jack_connect was called.
Ret(op, arg, val, count, warned, err, oob, hadPort, conn) ==
  [op |-> op, arg |-> arg, val |-> val, count |-> count, warned |-> warned,
   err |-> err, oob |-> oob, hadPort |-> hadPort, conn |-> conn]

(***************************************************************************)
(* The state after the constructor: data.port = nullptr, data.client =     *)
(* nullptr, then connect().                                                *)
(***************************************************************************)
Init ==
  /\ kind \in {"in", "out"}
  /\ serverUp \in BOOLEAN
  /\ peers \in 0..MaxPeers
  /\ client = IF serverUp THEN CLIENT ELSE NULL
  /\ port = NULL
  /\ buffSize = <<>>
  /\ buffMessage = <<>>
  /\ lastTime = 0
  /\ sem_cleanup = 0
  /\ sem_needpost = 0
  /\ firstMessage = TRUE
  /\ continueSysex = FALSE
  /\ userCallback \in (IF kind = "in" THEN BOOLEAN ELSE {FALSE})
  /\ queue = <<>>
  /\ regPorts = {}
  /\ nextPort = 1
  /\ unregLog = <<>>
  /\ clock = 1
  /\ upc = "idle"
  /\ umsg = <<>>
  /\ ret = Ret("ctor", 0, "", 0, ~serverUp, FALSE, FALSE, FALSE, FALSE)
  /\ rpc = "idle"
  /\ rport = NULL
  /\ space = 0
  /\ inEvents = <<>>
  /\ evIndex = 0
  /\ rlast = "none"
  /\ rbCreated = IF kind = "out" THEN 1 ELSE 0
  /\ sent = <<>>
  /\ sentNoPort = FALSE
  /\ sentWithPort = FALSE
  /\ emitted = <<>>
  /\ presented = 0
  /\ delivered = <<>>
  /\ hsSinceNotify = FALSE
  /\ closeTimedOut = FALSE
  /\ anyTimeout = FALSE
  /\ staleUse = FALSE
  /\ nReq = 0
  /\ nAck = 0
  /\ destroying = FALSE
  /\ ringFreed = 0
  /\ clientClosed = 0


(***************************************************************************)
(* connect(): a no-op with a client; otherwise (output only) a new         *)
(* ringbuffer pair is created, then jack_client_open is tried.             *)
(***************************************************************************)
ClientAfterConnect ==
  IF client # NULL THEN client ELSE IF serverUp THEN CLIENT ELSE NULL

\* The ringbuffer a field of the output backend points to after connect().
OutRingAfterConnect(rb) == IF client # NULL THEN rb ELSE <<>>

OutCreatedAfterConnect == IF client # NULL THEN rbCreated ELSE rbCreated + 1

\* connect() may be called: the model bounds the ringbuffer pairs created.
OutCanConnect == client # NULL \/ rbCreated < MaxCreates

(***************************************************************************)
(* jack_get_ports and the lookup ports[portNumber] of get_port_name.       *)
(* The list is NULL without a client or without a matching port; otherwise *)
(* it holds the peers' names and a terminating null entry.  The results    *)
(* of get_port_name(i) are the sets of <<string, warned, out-of-bounds>>   *)
(* the build can produce: an index past the terminator reads memory that   *)
(* is not part of the list, which may hold a null or any other pointer.    *)
(***************************************************************************)
PortListIsNull(c) == c = NULL \/ peers = 0

GetPortNameResults(c, i) ==
  IF PortListIsNull(c) THEN { <<"", TRUE, FALSE>> }
  ELSE IF i < peers THEN { <<PortNames[i + 1], FALSE, FALSE>> }
  ELSE IF i = peers THEN { <<"", TRUE, FALSE>> }
  ELSE { <<"", TRUE, TRUE>>, <<GARBAGE, FALSE, TRUE>> }

GetPortCountResult(c) == IF PortListIsNull(c) THEN 0 ELSE peers

\* The port numbers the operations are called with.
PortNumbers == 0..(MaxPeers + 1)

(***************************************************************************)
(* midi_out_jack: the public operations, on the user thread.               *)
(***************************************************************************)
\* jack_activate has been called and jack_client_close has not: the server
\* calls the process callback.
Activated == client # NULL /\ clientClosed = 0

\* The process is running: the callback has not written through a null pointer.
Alive == rpc # "crashed"

\* The user thread is between two operations of a live output instance.
OutIdle == kind = "out" /\ upc = "idle" /\ Alive /\ ~destroying

\* jack_port_register answering with a port for a null client as well.
Registered_any_client(c, ok) == IF ok THEN nextPort ELSE NULL
\* jack_port_register: fails without a client, and may fail with one.
\* "ok" is the server's answer; the result is the new value of data.port.
Registered(c, ok) == IF c # NULL /\ ok THEN nextPort ELSE NULL

\* open_port without the test of data.port before jack_port_register.
out_open_port_unguarded(portNumber, ok) ==
  /\ OutIdle /\ OutCanConnect /\ nextPort <= MaxOpens
  /\ LET c == ClientAfterConnect
         p == Registered(c, ok)
     IN /\ client' = c
        /\ buffSize' = OutRingAfterConnect(buffSize)
        /\ buffMessage' = OutRingAfterConnect(buffMessage)
        /\ rbCreated' = OutCreatedAfterConnect
        /\ port' = p
        /\ regPorts' = IF p # NULL THEN regPorts \cup {p} ELSE regPorts
        /\ nextPort' = IF p # NULL THEN nextPort + 1 ELSE nextPort
        /\ IF p = NULL
             THEN ret' = Ret("open_port", 0, "", 0, FALSE, TRUE, FALSE, port # NULL, FALSE)
             ELSE \E r \in GetPortNameResults(c, portNumber) :
                    ret' = Ret("open_port", 0, r[1], 0, r[2], FALSE, r[3], port # NULL, TRUE)
  /\ UNCHANGED <<kind, lastTime, sem_cleanup, sem_needpost, indata, serverUp,
                 peers, unregLog, clock, upc, umsg, rthread, sent, sentNoPort,
                 emitted, presented, delivered, hsSinceNotify, closeTimedOut,
                 anyTimeout, staleUse, nReq, nAck, sentWithPort, lifetime>>

out_open_port(portNumber, ok) ==
  /\ OutIdle /\ OutCanConnect /\ (port = NULL => nextPort <= MaxOpens)
  /\ LET c == ClientAfterConnect
         p == IF port = NULL THEN Registered(c, ok) ELSE port
     IN /\ client' = c
        /\ buffSize' = OutRingAfterConnect(buffSize)
        /\ buffMessage' = OutRingAfterConnect(buffMessage)
        /\ rbCreated' = OutCreatedAfterConnect
        /\ port' = p
        /\ regPorts' = IF port = NULL /\ p # NULL THEN regPorts \cup {p} ELSE regPorts
        /\ nextPort' = IF port = NULL /\ p # NULL THEN nextPort + 1 ELSE nextPort
        /\ IF p = NULL
             THEN ret' = Ret("open_port", 0, "", 0, FALSE, TRUE, FALSE, port # NULL, FALSE)
             ELSE \E r \in GetPortNameResults(c, portNumber) :
                    ret' = Ret("open_port", 0, r[1], 0, r[2], FALSE, r[3], port # NULL, TRUE)
  /\ UNCHANGED <<kind, lastTime, sem_cleanup, sem_needpost, indata, serverUp,
                 peers, unregLog, clock, upc, umsg, rthread, sent, sentNoPort,
                 emitted, presented, delivered, hsSinceNotify, closeTimedOut,
                 anyTimeout, staleUse, nReq, nAck, sentWithPort, lifetime>>

out_open_virtual_port(ok) ==
  /\ OutIdle /\ OutCanConnect /\ (port = NULL => nextPort <= MaxOpens)
  /\ LET c == ClientAfterConnect
         p == IF port = NULL THEN Registered(c, ok) ELSE port
     IN /\ client' = c
        /\ buffSize' = OutRingAfterConnect(buffSize)
        /\ buffMessage' = OutRingAfterConnect(buffMessage)
        /\ rbCreated' = OutCreatedAfterConnect
        /\ port' = p
        /\ regPorts' = IF port = NULL /\ p # NULL THEN regPorts \cup {p} ELSE regPorts
        /\ nextPort' = IF port = NULL /\ p # NULL THEN nextPort + 1 ELSE nextPort
        /\ ret' = Ret("open_virtual_port", 0, "", 0, FALSE, p = NULL, FALSE, port # NULL, FALSE)
  /\ UNCHANGED <<kind, lastTime, sem_cleanup, sem_needpost, indata, serverUp,
                 peers, unregLog, clock, upc, umsg, rthread, sent, sentNoPort,
                 emitted, presented, delivered, hsSinceNotify, closeTimedOut,
                 anyTimeout, staleUse, nReq, nAck, sentWithPort, lifetime>>

out_get_port_count ==
  /\ OutIdle /\ OutCanConnect
  /\ LET c == ClientAfterConnect
     IN /\ client' = c
        /\ buffSize' = OutRingAfterConnect(buffSize)
        /\ buffMessage' = OutRingAfterConnect(buffMessage)
        /\ rbCreated' = OutCreatedAfterConnect
        /\ ret' = Ret("get_port_count", 0, "", GetPortCountResult(c), FALSE,
                      FALSE, FALSE, port # NULL, FALSE)
  /\ UNCHANGED <<kind, port, lastTime, sem_cleanup, sem_needpost, indata,
                 server, upc, umsg, rthread, sent, sentNoPort, emitted,
                 presented, delivered, hsSinceNotify, closeTimedOut,
                 anyTimeout, staleUse, nReq, nAck, sentWithPort, lifetime>>

out_get_port_name(portNumber) ==
  /\ OutIdle /\ OutCanConnect
  /\ LET c == ClientAfterConnect
     IN /\ client' = c
        /\ buffSize' = OutRingAfterConnect(buffSize)
        /\ buffMessage' = OutRingAfterConnect(buffMessage)
        /\ rbCreated' = OutCreatedAfterConnect
        /\ \E r \in GetPortNameResults(c, portNumber) :
             ret' = Ret("get_port_name", portNumber, r[1], 0, r[2], FALSE,
                        r[3], port # NULL, FALSE)
  /\ UNCHANGED <<kind, port, lastTime, sem_cleanup, sem_needpost, indata,
                 server, upc, umsg, rthread, sent, sentNoPort, emitted,
                 presented, delivered, hsSinceNotify, closeTimedOut,
                 anyTimeout, staleUse, nReq, nAck, sentWithPort, lifetime>>

(***************************************************************************)
(* send_message: the payload is written to buffMessage, then the length    *)
(* record to buffSize.  Neither write's return value is looked at.         *)
(***************************************************************************)
out_send_message_payload(m) ==
  /\ OutIdle /\ Len(sent) < MaxSends
  /\ buffMessage' = jack_ringbuffer_write(buffMessage, m)
  /\ umsg' = m
  /\ upc' = "send_size"
  /\ sent' = Append(sent, m)
  /\ sentNoPort' = (sentNoPort \/ port = NULL)
  /\ sentWithPort' = (sentWithPort \/ port # NULL)
  /\ UNCHANGED <<kind, client, port, buffSize, lastTime, sem_cleanup,
                 sem_needpost, indata, server, ret, rthread, rbCreated,
                 emitted, presented, delivered, hsSinceNotify, closeTimedOut,
                 anyTimeout, staleUse, nReq, nAck, lifetime>>

out_send_message_size ==
  /\ kind = "out" /\ upc = "send_size" /\ Alive
  /\ buffSize' = jack_ringbuffer_write(buffSize, EncodeInt(Len(umsg)))
  /\ upc' = "idle"
  /\ ret' = Ret("send_message", 0, "", 0, FALSE, FALSE, FALSE, port # NULL, FALSE)
  /\ UNCHANGED <<kind, client, port, buffMessage, lastTime, sem_cleanup,
                 sem_needpost, indata, server, umsg, rthread, history,
                 sentWithPort, lifetime>>

(***************************************************************************)
(* close_port: return without a port; otherwise notify sem_needpost, wait  *)
(* for sem_cleanup for at most 1 s, unregister the port, clear data.port.  *)
(***************************************************************************)
\* close_port without the early return for data.port == nullptr.
out_close_port_unguarded ==
  /\ OutIdle
  /\ sem_needpost' = notify(sem_needpost)
  /\ nReq' = nReq + 1
  /\ hsSinceNotify' = FALSE
  /\ closeTimedOut' = FALSE
  /\ upc' = "close_wait"
  /\ ret' = Ret("close_port", 0, "", 0, FALSE, FALSE, FALSE, port # NULL, FALSE)
  /\ UNCHANGED <<kind, client, port, buffSize, buffMessage, lastTime,
                 sem_cleanup, indata, server, umsg, rthread, rbCreated, sent,
                 sentNoPort, emitted, presented, delivered, anyTimeout,
                 staleUse, nAck, sentWithPort, lifetime>>

out_close_port ==
  /\ OutIdle
  /\ IF port = NULL
       THEN /\ ret' = Ret("close_port", 0, "", 0, FALSE, FALSE, FALSE, FALSE, FALSE)
            /\ UNCHANGED <<sem_needpost, nReq, hsSinceNotify, closeTimedOut, upc>>
       ELSE /\ sem_needpost' = notify(sem_needpost)
            /\ nReq' = nReq + 1
            /\ hsSinceNotify' = FALSE
            /\ closeTimedOut' = FALSE
            /\ upc' = "close_wait"
            /\ ret' = Ret("close_port", 0, "", 0, FALSE, FALSE, FALSE, TRUE, FALSE)
  /\ UNCHANGED <<kind, client, port, buffSize, buffMessage, lastTime,
                 sem_cleanup, indata, server, umsg, rthread, rbCreated, sent,
                 sentNoPort, emitted, presented, delivered, anyTimeout,
                 staleUse, nAck, sentWithPort, lifetime>>

\* sem_cleanup.wait_for(1s) returns because the semaphore is signalled.
out_close_port_acked ==
  /\ kind = "out" /\ upc = "close_wait" /\ Alive
  /\ sem_cleanup > 0
  /\ sem_cleanup' = 0
  /\ upc' = "close_unregister"
  /\ UNCHANGED <<kind, client, port, buffSize, buffMessage, lastTime,
                 sem_needpost, indata, server, umsg, ret, rthread, history,
                 sentWithPort, lifetime>>

\* sem_cleanup.wait() in place of wait_for(1s): without a signal, close_port
\* stays blocked.
out_close_port_wait ==
  /\ kind = "out" /\ upc = "close_wait" /\ Alive
  /\ sem_cleanup = 0
  /\ UNCHANGED vars
\* sem_cleanup.wait_for(1s) returns because the second has passed.
out_close_port_timeout ==
  /\ kind = "out" /\ upc = "close_wait" /\ Alive
  /\ sem_cleanup = 0
  /\ closeTimedOut' = TRUE
  /\ anyTimeout' = TRUE
  /\ upc' = "close_unregister"
  /\ UNCHANGED <<kind, jdata, indata, server, umsg, ret, rthread, rbCreated,
                 sent, sentNoPort, emitted, presented, delivered,
                 hsSinceNotify, staleUse, nReq, nAck, sentWithPort, lifetime>>

out_close_port_unregister ==
  /\ kind = "out" /\ upc = "close_unregister" /\ Alive
  /\ regPorts' = regPorts \ {port}
  /\ unregLog' = Append(unregLog, port)
  /\ upc' = "close_clear"
  /\ UNCHANGED <<kind, jdata, indata, serverUp, peers, nextPort, clock, umsg,
                 ret, rthread, history, sentWithPort, lifetime>>

out_close_port_clear ==
  /\ kind = "out" /\ upc = "close_clear" /\ Alive
  /\ port' = NULL
  /\ upc' = "idle"
  /\ UNCHANGED <<kind, client, buffSize, buffMessage, lastTime, sem_cleanup,
                 sem_needpost, indata, server, umsg, ret, rthread, history,
                 sentWithPort, lifetime>>


(***************************************************************************)
(* jackProcessOut, on the real-time thread.  The server calls it while the *)
(* client is active, one invocation at a time.                             *)
(***************************************************************************)
\* if (data.port == nullptr) return 0;
jackProcessOut_enter ==
  /\ kind = "out" /\ Activated /\ rpc = "idle"
  /\ IF port = NULL
       THEN /\ rlast' = "no_port"
            /\ UNCHANGED <<rpc, rport>>
       ELSE /\ rport' = port
            /\ rpc' = "buffer"
            /\ rlast' = "running"
  /\ UNCHANGED <<kind, jdata, indata, server, uthread, space, inEvents,
                 evIndex, history, sentWithPort, lifetime>>

\* jack_port_get_buffer(data.port, nframes); jack_midi_clear_buffer(buff).
\* data.port is read again, unsynchronised with the user thread: the build may
\* reuse the value it tested or load the field a second time.
jackProcessOut_buffer ==
  /\ kind = "out" /\ rpc = "buffer"
  /\ \E p \in {rport, port} :
       /\ rport' = p
       /\ staleUse' = (staleUse \/ p \notin regPorts)
  /\ rpc' = "loop"
  /\ UNCHANGED <<kind, jdata, indata, server, uthread, space, inEvents,
                 evIndex, rlast, rbCreated, sent, sentNoPort, emitted,
                 presented, delivered, hsSinceNotify, closeTimedOut,
                 anyTimeout, nReq, nAck, sentWithPort, lifetime>>

\* while (jack_ringbuffer_read_space(data.buffSize) > 0): read one length
\* record into space and reserve an event of that size in the port buffer.
jackProcessOut_read_size ==
  /\ kind = "out" /\ rpc = "loop"
  /\ jack_ringbuffer_read_space(buffSize) > 0
  /\ space' = DecodeInt(jack_ringbuffer_read_data(buffSize, sizeof_int))
  /\ buffSize' = jack_ringbuffer_read_rest(buffSize, sizeof_int)
  /\ staleUse' = (staleUse \/ rport \notin regPorts)
  /\ rpc' = "read_message"
  /\ UNCHANGED <<kind, client, port, buffMessage, lastTime, sem_cleanup,
                 sem_needpost, indata, server, uthread, rport, inEvents,
                 evIndex, rlast, rbCreated, sent, sentNoPort, emitted,
                 presented, delivered, hsSinceNotify, closeTimedOut,
                 anyTimeout, nReq, nAck, sentWithPort, lifetime>>

\* jack_ringbuffer_read(data.buffMessage, (char*)midiData, space): the bytes
\* read are the event's.  With midiData NULL and bytes to copy the callback
\* writes through a null pointer.
jackProcessOut_read_message ==
  /\ kind = "out" /\ rpc = "read_message"
  /\ LET bytes == jack_ringbuffer_read_data(buffMessage, space)
     IN IF ReserveOk(space)
          THEN /\ emitted' = Append(emitted, [size |-> space, bytes |-> bytes])
               /\ buffMessage' = jack_ringbuffer_read_rest(buffMessage, space)
               /\ rpc' = "loop"
          ELSE IF bytes = <<>>
            THEN /\ rpc' = "loop"
                 /\ UNCHANGED <<emitted, buffMessage>>
            ELSE /\ rpc' = "crashed"
                 /\ UNCHANGED <<emitted, buffMessage>>
  /\ UNCHANGED <<kind, client, port, buffSize, lastTime, sem_cleanup,
                 sem_needpost, indata, server, uthread, rport, space, inEvents,
                 evIndex, rlast, rbCreated, sent, sentNoPort, presented,
                 delivered, hsSinceNotify, closeTimedOut, anyTimeout, staleUse,
                 nReq, nAck, sentWithPort, lifetime>>

\* jack_ringbuffer_read_space(data.buffSize) > 0 is false: the loop ends.
jackProcessOut_loop_exit ==
  /\ kind = "out" /\ rpc = "loop"
  /\ jack_ringbuffer_read_space(buffSize) = 0
  /\ rpc' = "handshake"
  /\ UNCHANGED <<kind, jdata, indata, server, uthread, rport, space, inEvents,
                 evIndex, rlast, history, sentWithPort, lifetime>>

\* The handshake with the test of try_wait's result the other way round.
jackProcessOut_handshake_inverted ==
  /\ kind = "out" /\ rpc = "handshake"
  /\ LET signalled == sem_needpost > 0
         r == try_wait_ret(sem_needpost)
     IN /\ sem_needpost' = try_wait_sem(sem_needpost)
        /\ sem_cleanup' = IF r THEN notify(sem_cleanup) ELSE sem_cleanup
        /\ nAck' = IF r THEN nAck + 1 ELSE nAck
        /\ hsSinceNotify' = (hsSinceNotify \/ signalled)
  /\ rpc' = "idle"
  /\ rlast' = "returned"
  /\ UNCHANGED <<kind, client, port, buffSize, buffMessage, lastTime, indata,
                 server, uthread, rport, space, inEvents, evIndex, rbCreated,
                 sent, sentNoPort, emitted, presented, delivered,
                 closeTimedOut, anyTimeout, staleUse, nReq,
                 sentWithPort, lifetime>>

\* if (!data.sem_needpost.try_wait()) data.sem_cleanup.notify(); return 0;
jackProcessOut_handshake ==
  /\ kind = "out" /\ rpc = "handshake"
  /\ LET signalled == sem_needpost > 0
         r == try_wait_ret(sem_needpost)
     IN /\ sem_needpost' = try_wait_sem(sem_needpost)
        /\ sem_cleanup' = IF ~r THEN notify(sem_cleanup) ELSE sem_cleanup
        /\ nAck' = IF ~r THEN nAck + 1 ELSE nAck
        /\ hsSinceNotify' = (hsSinceNotify \/ signalled)
  /\ rpc' = "idle"
  /\ rlast' = "returned"
  /\ UNCHANGED <<kind, client, port, buffSize, buffMessage, lastTime, indata,
                 server, uthread, rport, space, inEvents, evIndex, rbCreated,
                 sent, sentNoPort, emitted, presented, delivered,
                 closeTimedOut, anyTimeout, staleUse, nReq,
                 sentWithPort, lifetime>>


(***************************************************************************)
(* midi_in_jack: the public operations, on the user thread.                *)
(***************************************************************************)
InIdle == kind = "in" /\ upc = "idle" /\ ~destroying

in_open_port(portNumber, ok) ==
  /\ InIdle /\ (port = NULL => nextPort <= MaxOpens)
  /\ LET c == ClientAfterConnect
         p == IF port = NULL THEN Registered(c, ok) ELSE port
     IN /\ client' = c
        /\ port' = p
        /\ regPorts' = IF port = NULL /\ p # NULL THEN regPorts \cup {p} ELSE regPorts
        /\ nextPort' = IF port = NULL /\ p # NULL THEN nextPort + 1 ELSE nextPort
        /\ IF p = NULL
             THEN ret' = Ret("open_port", 0, "", 0, FALSE, TRUE, FALSE, port # NULL, FALSE)
             ELSE \E r \in GetPortNameResults(c, portNumber) :
                    ret' = Ret("open_port", 0, r[1], 0, r[2], FALSE, r[3], port # NULL, TRUE)
  /\ UNCHANGED <<kind, buffSize, buffMessage, lastTime, sem_cleanup,
                 sem_needpost, indata, serverUp, peers, unregLog, clock, upc,
                 umsg, rthread, history, sentWithPort, lifetime>>

in_open_virtual_port(ok) ==
  /\ InIdle /\ (port = NULL => nextPort <= MaxOpens)
  /\ LET c == ClientAfterConnect
         p == IF port = NULL THEN Registered(c, ok) ELSE port
     IN /\ client' = c
        /\ port' = p
        /\ regPorts' = IF port = NULL /\ p # NULL THEN regPorts \cup {p} ELSE regPorts
        /\ nextPort' = IF port = NULL /\ p # NULL THEN nextPort + 1 ELSE nextPort
        /\ ret' = Ret("open_virtual_port", 0, "", 0, FALSE, p = NULL, FALSE, port # NULL, FALSE)
  /\ UNCHANGED <<kind, buffSize, buffMessage, lastTime, sem_cleanup,
                 sem_needpost, indata, serverUp, peers, unregLog, clock, upc,
                 umsg, rthread, history, sentWithPort, lifetime>>

\* if (data.port == nullptr) return; jack_port_unregister(client, port);
in_close_port ==
  /\ InIdle
  /\ IF port = NULL
       THEN /\ ret' = Ret("close_port", 0, "", 0, FALSE, FALSE, FALSE, FALSE, FALSE)
            /\ UNCHANGED <<regPorts, unregLog, upc>>
       ELSE /\ regPorts' = regPorts \ {port}
            /\ unregLog' = Append(unregLog, port)
            /\ upc' = "in_close_clear"
            /\ ret' = Ret("close_port", 0, "", 0, FALSE, FALSE, FALSE, TRUE, FALSE)
  /\ UNCHANGED <<kind, jdata, indata, serverUp, peers, nextPort, clock, umsg,
                 rthread, history, sentWithPort, lifetime>>

\* data.port = nullptr;
in_close_port_clear ==
  /\ kind = "in" /\ upc = "in_close_clear"
  /\ port' = NULL
  /\ upc' = "idle"
  /\ UNCHANGED <<kind, client, buffSize, buffMessage, lastTime, sem_cleanup,
                 sem_needpost, indata, server, umsg, ret, rthread, history,
                 sentWithPort, lifetime>>

in_get_port_count ==
  /\ InIdle
  /\ LET c == ClientAfterConnect
     IN /\ client' = c
        /\ ret' = Ret("get_port_count", 0, "", GetPortCountResult(c), FALSE,
                      FALSE, FALSE, port # NULL, FALSE)
  /\ UNCHANGED <<kind, port, buffSize, buffMessage, lastTime, sem_cleanup,
                 sem_needpost, indata, server, upc, umsg, rthread, history,
                 sentWithPort, lifetime>>

in_get_port_name(portNumber) ==
  /\ InIdle
  /\ LET c == ClientAfterConnect
     IN /\ client' = c
        /\ \E r \in GetPortNameResults(c, portNumber) :
             ret' = Ret("get_port_name", portNumber, r[1], 0, r[2], FALSE,
                        r[3], port # NULL, FALSE)
  /\ UNCHANGED <<kind, port, buffSize, buffMessage, lastTime, sem_cleanup,
                 sem_needpost, indata, server, upc, umsg, rthread, history,
                 sentWithPort, lifetime>>

(***************************************************************************)
(* The application side of midi_in_api::in_data: the upper layer sets and  *)
(* clears continueSysex, and takes messages from the queue.                *)
(***************************************************************************)
app_set_continue_sysex(b) ==
  /\ kind = "in" /\ continueSysex # b
  /\ continueSysex' = b
  /\ UNCHANGED <<kind, jdata, firstMessage, userCallback, queue, server,
                 uthread, rthread, history, sentWithPort, lifetime>>

app_get_message ==
  /\ kind = "in" /\ queue # <<>>
  /\ queue' = Tail(queue)
  /\ UNCHANGED <<kind, jdata, firstMessage, continueSysex, userCallback,
                 server, uthread, rthread, history, sentWithPort, lifetime>>

\* queue.push(m): refused when the queue holds its limit.
QueueAccepts(q) == Len(q) < queueSizeLimit

(***************************************************************************)
(* jackProcessIn, on the real-time thread.                                 *)
(***************************************************************************)
\* The bytes of the k-th event the server presents.
EventBytes(k) == <<144, k>>

RECURSIVE EventsFrom(_, _)
EventsFrom(k, n) == IF n = 0 THEN <<>> ELSE <<k>> \o EventsFrom(k + 1, n - 1)

\* if (jData.port == nullptr) return 0; jack_port_get_buffer;
\* jack_midi_get_event_count: the server presents n events this period.
jackProcessIn_enter(n) ==
  /\ kind = "in" /\ Activated /\ rpc = "idle"
  /\ IF port = NULL
       THEN /\ n = 0
            /\ rlast' = "no_port"
            /\ UNCHANGED <<rpc, rport, inEvents, evIndex, presented, staleUse>>
       ELSE /\ presented + n <= MaxEvents
            /\ rport' = port
            /\ staleUse' = (staleUse \/ port \notin regPorts)
            /\ inEvents' = EventsFrom(presented + 1, n)
            /\ presented' = presented + n
            /\ evIndex' = 0
            /\ rpc' = "in_loop"
            /\ rlast' = "running"
  /\ UNCHANGED <<kind, jdata, indata, server, uthread, space, rbCreated, sent,
                 sentNoPort, emitted, delivered, hsSinceNotify, closeTimedOut,
                 anyTimeout, nReq, nAck, sentWithPort, lifetime>>

\* The event taken in the loop's iterations from the end of the buffer.
CurrentEvent_from_end == inEvents[Len(inEvents) - evIndex]
\* jack_midi_event_get(&event, buff, j): the j-th event of the period.
CurrentEvent == inEvents[evIndex + 1]
\* The timestamp the callback stores on the message of the current event.
InTimestamp(time) ==
  IF firstMessage THEN DefaultTimestamp ELSE ToSeconds(time - lastTime)

\* The loop iteration without the test of rtData.continueSysex.
jackProcessIn_event_no_sysex_test ==
  /\ kind = "in" /\ rpc = "in_loop" /\ evIndex < Len(inEvents)
  /\ LET ev == inEvents[evIndex + 1]
         time == clock
         m == [bytes |-> EventBytes(ev), timestamp |-> InTimestamp(time)]
         d == [ev |-> ev, bytes |-> m.bytes, timestamp |-> m.timestamp,
               time |-> time, last |-> lastTime,
               via |-> IF userCallback THEN "callback" ELSE "queue"]
     IN /\ firstMessage' = FALSE
        /\ lastTime' = time
        /\ IF userCallback
             THEN /\ delivered' = Append(delivered, d)
                  /\ UNCHANGED queue
             ELSE IF QueueAccepts(queue)
               THEN /\ queue' = Append(queue, m)
                    /\ delivered' = Append(delivered, d)
               ELSE UNCHANGED <<queue, delivered>>
  /\ evIndex' = evIndex + 1
  /\ UNCHANGED <<kind, client, port, buffSize, buffMessage, sem_cleanup,
                 sem_needpost, continueSysex, userCallback, server, uthread,
                 rpc, rport, space, inEvents, rlast, rbCreated, sent,
                 sentNoPort, emitted, presented, hsSinceNotify, closeTimedOut,
                 anyTimeout, staleUse, nReq, nAck, sentWithPort, lifetime>>
\* The loop iteration with jData.lastTime written only for a message that is
\* handed over.
jackProcessIn_event_last_on_delivery ==
  /\ kind = "in" /\ rpc = "in_loop" /\ evIndex < Len(inEvents)
  /\ LET ev == CurrentEvent
         time == clock
         m == [bytes |-> EventBytes(ev), timestamp |-> InTimestamp(time)]
         d == [ev |-> ev, bytes |-> m.bytes, timestamp |-> m.timestamp,
               time |-> time, last |-> lastTime,
               via |-> IF userCallback THEN "callback" ELSE "queue"]
     IN /\ firstMessage' = FALSE
        /\ IF continueSysex
             THEN UNCHANGED <<queue, delivered, lastTime>>
             ELSE IF userCallback
               THEN /\ delivered' = Append(delivered, d)
                    /\ lastTime' = time
                    /\ UNCHANGED queue
               ELSE IF QueueAccepts(queue)
                 THEN /\ queue' = Append(queue, m)
                      /\ delivered' = Append(delivered, d)
                      /\ lastTime' = time
                 ELSE UNCHANGED <<queue, delivered, lastTime>>
  /\ evIndex' = evIndex + 1
  /\ UNCHANGED <<kind, client, port, buffSize, buffMessage, sem_cleanup,
                 sem_needpost, continueSysex, userCallback, server, uthread,
                 rpc, rport, space, inEvents, rlast, rbCreated, sent,
                 sentNoPort, emitted, presented, hsSinceNotify, closeTimedOut,
                 anyTimeout, staleUse, nReq, nAck, sentWithPort, lifetime>>
\* One iteration of the loop over the period's events.
jackProcessIn_event ==
  /\ kind = "in" /\ rpc = "in_loop" /\ evIndex < Len(inEvents)
  /\ LET ev == CurrentEvent
         time == clock
         m == [bytes |-> EventBytes(ev), timestamp |-> InTimestamp(time)]
         d == [ev |-> ev, bytes |-> m.bytes, timestamp |-> m.timestamp,
               time |-> time, last |-> lastTime,
               via |-> IF userCallback THEN "callback" ELSE "queue"]
     IN /\ firstMessage' = FALSE
        /\ lastTime' = time
        /\ IF continueSysex
             THEN UNCHANGED <<queue, delivered>>
             ELSE IF userCallback
               THEN /\ delivered' = Append(delivered, d)
                    /\ UNCHANGED queue
               ELSE IF QueueAccepts(queue)
                 THEN /\ queue' = Append(queue, m)
                      /\ delivered' = Append(delivered, d)
                 ELSE UNCHANGED <<queue, delivered>>
  /\ evIndex' = evIndex + 1
  /\ UNCHANGED <<kind, client, port, buffSize, buffMessage, sem_cleanup,
                 sem_needpost, continueSysex, userCallback, server, uthread,
                 rpc, rport, space, inEvents, rlast, rbCreated, sent,
                 sentNoPort, emitted, presented, hsSinceNotify, closeTimedOut,
                 anyTimeout, staleUse, nReq, nAck, sentWithPort, lifetime>>

\* return 0;
jackProcessIn_return ==
  /\ kind = "in" /\ rpc = "in_loop" /\ evIndex = Len(inEvents)
  /\ rpc' = "idle"
  /\ rlast' = "returned"
  /\ UNCHANGED <<kind, jdata, indata, server, uthread, rport, space, inEvents,
                 evIndex, history, sentWithPort, lifetime>>

(***************************************************************************)
(* The server: its clock advances, and a server that was not running may   *)
(* be started.                                                             *)
(***************************************************************************)
Tick ==
  /\ kind = "in" /\ clock < MaxClock
  /\ clock' = clock + 1
  /\ UNCHANGED <<kind, jdata, indata, serverUp, peers, regPorts, nextPort,
                 unregLog, uthread, rthread, history, sentWithPort, lifetime>>

ServerStart ==
  /\ ~serverUp /\ Alive
  /\ serverUp' = TRUE
  /\ UNCHANGED <<kind, jdata, indata, peers, regPorts, nextPort, unregLog,
                 clock, uthread, rthread, history, sentWithPort, lifetime>>

(***************************************************************************)
(* ~midi_out_jack: close_port(); jack_ringbuffer_free of both ringbuffers; *)
(* then jack_client_close if there is a client.  The steps of close_port   *)
(* after its first are those of a close_port called by the user.           *)
(***************************************************************************)
out_destructor ==
  /\ OutIdle
  /\ destroying' = TRUE
  /\ IF port = NULL
       THEN /\ ret' = Ret("~midi_out_jack", 0, "", 0, FALSE, FALSE, FALSE, FALSE, FALSE)
            /\ UNCHANGED <<sem_needpost, nReq, hsSinceNotify, closeTimedOut, upc>>
       ELSE /\ sem_needpost' = notify(sem_needpost)
            /\ nReq' = nReq + 1
            /\ hsSinceNotify' = FALSE
            /\ closeTimedOut' = FALSE
            /\ upc' = "close_wait"
            /\ ret' = Ret("~midi_out_jack", 0, "", 0, FALSE, FALSE, FALSE, TRUE, FALSE)
  /\ UNCHANGED <<kind, client, port, buffSize, buffMessage, lastTime,
                 sem_cleanup, indata, server, umsg, rthread, rbCreated, sent,
                 sentNoPort, emitted, presented, delivered, anyTimeout,
                 staleUse, nAck, sentWithPort, ringFreed, clientClosed>>

\* jack_ringbuffer_free(data.buffSize); jack_ringbuffer_free(data.buffMessage);
out_destructor_free ==
  /\ kind = "out" /\ destroying /\ upc = "idle" /\ Alive
  /\ ringFreed < 2
  /\ ringFreed' = ringFreed + 1
  /\ UNCHANGED <<kind, jdata, indata, server, uthread, rthread, history,
                 sentWithPort, destroying, clientClosed>>

\* if (data.client) jack_client_close(data.client): the server stops calling
\* the process callback; the call returns once no invocation is running.
out_destructor_client_close ==
  /\ kind = "out" /\ destroying /\ upc = "idle" /\ Alive
  /\ ringFreed = 2
  /\ client # NULL => rpc = "idle"
  /\ clientClosed' = IF client # NULL THEN clientClosed + 1 ELSE clientClosed
  /\ upc' = "destroyed"
  /\ UNCHANGED <<kind, jdata, indata, server, umsg, ret, rthread, history,
                 sentWithPort, destroying, ringFreed>>

\* The callback reads a ringbuffer that has been freed: besides finding the
\* old contents still in place, the read may fault.
jackProcessOut_read_freed ==
  /\ kind = "out" /\ rpc \in {"loop", "read_message"}
  /\ ringFreed > 0
  /\ rpc' = "crashed"
  /\ UNCHANGED <<kind, jdata, indata, server, uthread, rport, space, inEvents,
                 evIndex, rlast, history, sentWithPort, lifetime>>

(***************************************************************************)
(* ~midi_in_jack: close_port(); then jack_client_close if there is a       *)
(* client.                                                                 *)
(***************************************************************************)
in_destructor ==
  /\ InIdle
  /\ destroying' = TRUE
  /\ IF port = NULL
       THEN /\ ret' = Ret("~midi_in_jack", 0, "", 0, FALSE, FALSE, FALSE, FALSE, FALSE)
            /\ UNCHANGED <<regPorts, unregLog, upc>>
       ELSE /\ regPorts' = regPorts \ {port}
            /\ unregLog' = Append(unregLog, port)
            /\ upc' = "in_close_clear"
            /\ ret' = Ret("~midi_in_jack", 0, "", 0, FALSE, FALSE, FALSE, TRUE, FALSE)
  /\ UNCHANGED <<kind, jdata, indata, serverUp, peers, nextPort, clock, umsg,
                 rthread, history, sentWithPort, ringFreed, clientClosed>>

in_destructor_client_close ==
  /\ kind = "in" /\ destroying /\ upc = "idle"
  /\ client # NULL => rpc = "idle"
  /\ clientClosed' = IF client # NULL THEN clientClosed + 1 ELSE clientClosed
  /\ upc' = "destroyed"
  /\ UNCHANGED <<kind, jdata, indata, server, umsg, ret, rthread, history,
                 sentWithPort, destroying, ringFreed>>

(***************************************************************************)
(* Spec: one backend instance of either kind, its user thread and the      *)
(* real-time thread, with no peer port listed by the server.  SpecOut and  *)
(* SpecIn: the same with an output instance, with an input instance.       *)
(* SpecApi: the public operations of both backends on the user thread,     *)
(* with any number of peer ports and a server that does not run the        *)
(* process callback.                                                       *)
(***************************************************************************)
NextOut ==
  \/ \E i \in PortNumbers, ok \in BOOLEAN : out_open_port(i, ok)
  \/ \E ok \in BOOLEAN : out_open_virtual_port(ok)
  \/ \E m \in Payloads : out_send_message_payload(m)
  \/ out_send_message_size
  \/ out_close_port
  \/ out_close_port_acked
  \/ out_close_port_timeout
  \/ out_close_port_unregister
  \/ out_close_port_clear
  \/ jackProcessOut_enter
  \/ jackProcessOut_buffer
  \/ jackProcessOut_read_size
  \/ jackProcessOut_read_message
  \/ jackProcessOut_loop_exit
  \/ jackProcessOut_handshake
  \/ ServerStart

NextIn ==
  \/ \E i \in PortNumbers, ok \in BOOLEAN : in_open_port(i, ok)
  \/ \E ok \in BOOLEAN : in_open_virtual_port(ok)
  \/ in_close_port
  \/ in_close_port_clear
  \/ \E b \in BOOLEAN : app_set_continue_sysex(b)
  \/ app_get_message
  \/ \E n \in 0..2 : jackProcessIn_enter(n)
  \/ jackProcessIn_event
  \/ jackProcessIn_return
  \/ Tick
  \/ ServerStart

Next == NextOut \/ NextIn

\* No peer port is listed.
InitNoPeers == Init /\ peers = 0
InitOut == InitNoPeers /\ kind = "out"
InitIn == InitNoPeers /\ kind = "in"

Spec == InitNoPeers /\ [][Next]_vars
SpecOut == InitOut /\ [][NextOut]_vars
SpecIn == InitIn /\ [][NextIn]_vars

NextApi ==
  \/ \E i \in PortNumbers, ok \in BOOLEAN : out_open_port(i, ok)
  \/ \E ok \in BOOLEAN : out_open_virtual_port(ok)
  \/ out_get_port_count
  \/ \E i \in PortNumbers : out_get_port_name(i)
  \/ out_close_port
  \/ out_close_port_timeout
  \/ out_close_port_unregister
  \/ out_close_port_clear
  \/ \E i \in PortNumbers, ok \in BOOLEAN : in_open_port(i, ok)
  \/ \E ok \in BOOLEAN : in_open_virtual_port(ok)
  \/ in_close_port
  \/ in_close_port_clear
  \/ in_get_port_count
  \/ \E i \in PortNumbers : in_get_port_name(i)
  \/ ServerStart

SpecApi == Init /\ [][NextApi]_vars


(***************************************************************************)
(* Definitions the properties are stated with.                             *)
(***************************************************************************)
RECURSIVE TotalBytes(_)
TotalBytes(ms) == IF ms = <<>> THEN 0 ELSE Len(Head(ms)) + TotalBytes(Tail(ms))

\* The payloads sent and their length records fit within the capacity of
\* the payload ringbuffer and of the size ringbuffer.
FitsCapacity ==
  /\ TotalBytes(sent) <= RbCapacity
  /\ sizeof_int * Len(sent) <= RbCapacity

\* The event the callback writes for payload m.
EventOf(m) == [size |-> Len(m), bytes |-> m]

\* The events written so far are the first payloads sent, in send order.
EmittedIsPrefixOfSent ==
  /\ Len(emitted) <= Len(sent)
  /\ \A i \in 1..Len(emitted) : emitted[i] = EventOf(sent[i])

AllEmitted == Len(emitted) = Len(sent) /\ EmittedIsPrefixOfSent

\* No send_message is under way and the callback holds no record it has read.
NothingInFlight ==
  buffSize = <<>> /\ upc # "send_size" /\ rpc # "read_message"

IsOpen(op) == op \in {"open_port", "open_virtual_port"}

(***************************************************************************)
(* C1: on both backends at most one port is registered with the server at  *)
(* any time, and it is the one data.port holds: an open_port or            *)
(* open_virtual_port called while a port exists registers no other port.   *)
(***************************************************************************)
C1_AtMostOnePort ==
  /\ Cardinality(regPorts) <= 1
  /\ regPorts \subseteq {port}

\* An open was called with a port already there, and one port is registered.
C1_Witness ==
  IsOpen(ret.op) /\ ret.hadPort /\ ~ret.err /\ Cardinality(regPorts) = 1

(***************************************************************************)
(* C2: when every send_message was called with a port registered and the   *)
(* payloads and length records sent fit within the ringbuffer capacity,    *)
(* the events the callback has written, over all its invocations, are the  *)
(* first payloads sent, in send order, each with its bytes and its length; *)
(* and once the size ringbuffer is empty with nothing in flight, they are  *)
(* all the payloads sent.                                                  *)
(***************************************************************************)
C2_FramingIntegrity ==
  (kind = "out" /\ ~sentNoPort /\ FitsCapacity) =>
     /\ EmittedIsPrefixOfSent
     /\ NothingInFlight => AllEmitted
     /\ rpc # "crashed"

\* Three payloads that fit were sent and all three were written, in order,
\* the last one by a later callback invocation than the first.
C2_Witness ==
  /\ kind = "out" /\ ~sentNoPort /\ FitsCapacity
  /\ Len(sent) >= 3 /\ AllEmitted
  /\ sent[1] # sent[2]

(***************************************************************************)
(* C3: whenever the callback has read a length record from the size        *)
(* ringbuffer, the payload ringbuffer holds at least that many readable    *)
(* bytes: the consumer never reads a partly written or missing payload.    *)
(***************************************************************************)
C3_PayloadReadable ==
  (kind = "out" /\ rpc = "read_message") =>
     /\ space >= 0
     /\ space <= jack_ringbuffer_read_space(buffMessage)

(***************************************************************************)
(* C4: the output close_port unregisters the port only after a callback    *)
(* invocation has observed the request this close_port raised and          *)
(* signalled the ack, or after the timeout; and no port is unregistered    *)
(* twice.                                                                  *)
(***************************************************************************)
C4_UnregisterAfterAckOrTimeout ==
  /\ (kind = "out" /\ upc = "close_clear") => (hsSinceNotify \/ closeTimedOut)
  /\ \A i, j \in 1..Len(unregLog) : unregLog[i] = unregLog[j] => i = j

(***************************************************************************)
(* C5: when every output close_port so far left its wait by the ack, no    *)
(* callback invocation uses a port handle that is not registered.          *)
(***************************************************************************)
C5_NoUseAfterUnregister ==
  (kind = "out" /\ ~anyTimeout) => ~staleUse

(***************************************************************************)
(* C6: the callback signals the ack only in a step that finds the request  *)
(* signalled and consumes it; so the ack has been signalled at most as     *)
(* often as the request.                                                   *)
(***************************************************************************)
C6_AckOnlyOnRequest ==
  [][/\ nAck' # nAck =>
          /\ jackProcessOut_handshake
          /\ sem_needpost > 0
          /\ sem_needpost' = 0
          /\ nAck' = nAck + 1
     /\ (jackProcessOut_handshake /\ sem_needpost = 0) =>
          /\ sem_cleanup' = sem_cleanup
          /\ nAck' = nAck
     /\ nAck' <= nReq']_vars

\* The callback has found the request of a waiting close_port and signalled
\* the ack.
C6_Witness ==
  /\ nAck = 1 /\ nReq = 1 /\ rlast = "returned"
  /\ sem_cleanup = 1 /\ sem_needpost = 0 /\ upc = "close_wait"

(***************************************************************************)
(* C7: when payloads that fit were sent on an open output port and         *)
(* close_port then left its wait by the ack, every payload has been        *)
(* written to the port buffer by the time the port is unregistered.        *)
(***************************************************************************)
C7_DrainedAtUnregister ==
  (kind = "out" /\ upc = "close_clear" /\ ~anyTimeout /\ ~sentNoPort
     /\ FitsCapacity) => AllEmitted

(***************************************************************************)
(* C8: on both backends a close_port called with no port open changes      *)
(* nothing of the instance or of the server: the port handle stays absent, *)
(* the client handle, both ringbuffers and both semaphores keep their      *)
(* values, nothing is unregistered, and no semaphore is signalled or       *)
(* waited on.                                                              *)
(***************************************************************************)
C8_CloseIdempotent ==
  [][((in_close_port \/ out_close_port) /\ port = NULL) =>
        /\ UNCHANGED <<jdata, server, upc, nReq, nAck, rbCreated>>
        /\ port' = NULL]_vars

\* close_port was called again after a close_port that unregistered a port.
C8_Witness ==
  /\ kind = "out" /\ ret.op = "close_port" /\ ~ret.hadPort
  /\ upc = "idle" /\ port = NULL /\ Len(unregLog) >= 1

(***************************************************************************)
(* C9: the first message delivered to the application has timestamp 0, and *)
(* every later one has the timestamp (t_now - last) * 1e-6 >= 0.           *)
(***************************************************************************)
C9_FirstDeliveredZero ==
  kind = "in" =>
    \A i \in 1..Len(delivered) :
      IF i = 1
        THEN delivered[i].timestamp.num = 0
        ELSE /\ delivered[i].timestamp
                  = ToSeconds(delivered[i].time - delivered[i].last)
             /\ delivered[i].timestamp.num >= 0

(***************************************************************************)
(* C10: get_port_count on an unconnected instance returns 0 and raises     *)
(* nothing; get_port_name(i) with i at or past the number of peer ports    *)
(* warns, returns the empty string and reads no entry past the list's      *)
(* terminator.                                                             *)
(***************************************************************************)
C10_EnumerationSafe ==
  /\ (ret.op = "get_port_count" /\ client = NULL) =>
        (ret.count = 0 /\ ~ret.err)
  /\ (ret.op = "get_port_name" /\ ret.arg >= GetPortCountResult(client)) =>
        (ret.val = "" /\ ret.warned /\ ~ret.oob /\ ~ret.err)

(***************************************************************************)
(* C11: while the server is not running the instance stays unconnected;    *)
(* get_port_count returns 0 and raises nothing; open_port and              *)
(* open_virtual_port raise a driver error, no port is registered and       *)
(* jack_connect is not called.                                             *)
(***************************************************************************)
C11_ServerDown ==
  ~serverUp =>
     /\ client = NULL /\ port = NULL /\ regPorts = {}
     /\ ret.op = "get_port_count" => (ret.count = 0 /\ ~ret.err)
     /\ IsOpen(ret.op) => (ret.err /\ ~ret.conn)

\* open_port was called with the server not running.
C11_Witness ==
  ~serverUp /\ ret.op = "open_port" /\ ret.err /\ client = NULL

\* The events es are, in order, the events of some of the payloads ms.
RECURSIVE IsSubseqOfSent(_, _)
IsSubseqOfSent(es, ms) ==
  IF es = <<>> THEN TRUE
  ELSE IF ms = <<>> THEN FALSE
  ELSE IF Head(es) = EventOf(Head(ms)) THEN IsSubseqOfSent(Tail(es), Tail(ms))
  ELSE IsSubseqOfSent(es, Tail(ms))

(***************************************************************************)
(* C12: whatever is sent, fitting the free space of the ringbuffers or     *)
(* not, every event the callback writes is one of the payloads sent, with  *)
(* its bytes and its length, and the events written are an                 *)
(* order-preserving subsequence of the payloads sent.                      *)
(***************************************************************************)
C12_OverflowLosesWholeEvents ==
  kind = "out" => IsSubseqOfSent(emitted, sent)

(***************************************************************************)
(* SpecClose: an output instance on a running server, with the user thread *)
(* scheduled: an operation under way takes its next step, and              *)
(* wait_for(1s) returns, by the signal or by the timeout.  Nothing is      *)
(* assumed of the real-time thread: the server may stop calling the        *)
(* process callback at any point.                                          *)
(***************************************************************************)
InitClose == InitOut /\ serverUp

NextClose ==
  \/ \E ok \in BOOLEAN : out_open_virtual_port(ok)
  \/ out_send_message_payload(<<1, 2>>)
  \/ out_send_message_size
  \/ out_close_port
  \/ out_close_port_acked
  \/ out_close_port_timeout
  \/ out_close_port_unregister
  \/ out_close_port_clear
  \/ jackProcessOut_enter
  \/ jackProcessOut_buffer
  \/ jackProcessOut_read_size
  \/ jackProcessOut_read_message
  \/ jackProcessOut_loop_exit
  \/ jackProcessOut_handshake

SpecClose ==
  /\ InitClose /\ [][NextClose]_vars
  /\ WF_vars(out_close_port_acked \/ out_close_port_timeout)
  /\ WF_vars(out_close_port_unregister)
  /\ WF_vars(out_close_port_clear)

(***************************************************************************)
(* C13: an output close_port called with a port open eventually            *)
(* unregisters the port, clears data.port and returns, whether or not the  *)
(* process callback is invoked again.                                      *)
(***************************************************************************)
C13_CloseTerminates ==
  (kind = "out" /\ upc = "close_wait")
     ~> (upc = "idle" /\ port = NULL /\ regPorts = {})

\* A close_port that left its wait by the timeout has returned.
C13_Witness ==
  /\ kind = "out" /\ ret.op = "close_port" /\ ret.hadPort /\ closeTimedOut
  /\ upc = "idle" /\ port = NULL /\ regPorts = {} /\ Len(unregLog) >= 1

\* The message of the current event was handed over by "via" and to nothing
\* else.
HandedOver(via) ==
  /\ Len(delivered') = Len(delivered) + 1
  /\ SubSeq(delivered', 1, Len(delivered)) = delivered
  /\ delivered'[Len(delivered')].ev = inEvents[evIndex + 1]
  /\ delivered'[Len(delivered')].bytes = EventBytes(inEvents[evIndex + 1])
  /\ delivered'[Len(delivered')].via = via

(***************************************************************************)
(* C14: each event the input callback processes has exactly one outcome:   *)
(* with continue-sysex set the message reaches neither the user callback   *)
(* nor the queue; otherwise with a user callback installed the callback is *)
(* invoked once and the queue is not touched; otherwise the message is     *)
(* pushed to the queue once, or dropped when the queue is full.  The       *)
(* callback then goes on with the next event, and returns only after the   *)
(* last event of the period.                                               *)
(***************************************************************************)
C14_ExactlyOneOutcome ==
  [][/\ jackProcessIn_event =>
          /\ evIndex' = evIndex + 1 /\ rpc' = "in_loop"
          /\ IF continueSysex
               THEN UNCHANGED <<queue, delivered>>
               ELSE IF userCallback
                 THEN HandedOver("callback") /\ UNCHANGED queue
                 ELSE IF Len(queue) < queueSizeLimit
                   THEN /\ HandedOver("queue")
                        /\ Len(queue') = Len(queue) + 1
                        /\ queue'[Len(queue')].bytes
                             = EventBytes(inEvents[evIndex + 1])
                   ELSE UNCHANGED <<queue, delivered>>
     /\ (kind = "in" /\ rpc = "in_loop" /\ rpc' # "in_loop") =>
          /\ evIndex = Len(inEvents)
          /\ rpc' = "idle" /\ rlast' = "returned"]_vars

\* A period of two events has been processed to its end after one of the
\* events was discarded or dropped.
C14_Witness ==
  /\ kind = "in" /\ rlast = "returned" /\ rpc = "idle"
  /\ Len(inEvents) = 2 /\ evIndex = 2
  /\ presented = 2 /\ Len(delivered) = 1

(***************************************************************************)
(* C15: the messages delivered to the application, by the user callback or *)
(* by the queue, are events the server presented, each with its bytes, in  *)
(* the order the server presented them, within a period and across         *)
(* periods; no event is delivered twice.                                   *)
(***************************************************************************)
C15_InboundOrder ==
  kind = "in" =>
    /\ \A i \in 1..Len(delivered) :
         /\ delivered[i].ev \in 1..presented
         /\ delivered[i].bytes = EventBytes(delivered[i].ev)
    /\ \A i, j \in 1..Len(delivered) :
         i < j => delivered[i].ev < delivered[j].ev

\* Two messages were delivered with an event between them dropped or
\* discarded.
C15_Witness ==
  /\ kind = "in" /\ Len(delivered) = 2
  /\ delivered[1].ev = 1 /\ delivered[2].ev = 3

(***************************************************************************)
(* C16: for every event the input callback processes, delivered or not, it *)
(* sets lastTime to the server clock and clears firstMessage, so that the  *)
(* timestamp of a message that is not the first processed is the time      *)
(* since the event processed just before it; an invocation with no port    *)
(* registered returns without changing lastTime or firstMessage.           *)
(***************************************************************************)
C16_LastTimeEveryEvent ==
  [][/\ jackProcessIn_event =>
          /\ lastTime' = clock
          /\ firstMessage' = FALSE
          /\ (~firstMessage /\ delivered' # delivered) =>
                delivered'[Len(delivered')].timestamp
                   = ToSeconds(clock - lastTime)
     /\ ((\E n \in 0..2 : jackProcessIn_enter(n)) /\ port = NULL) =>
          /\ UNCHANGED <<lastTime, firstMessage>>
          /\ rpc' = "idle" /\ rlast' = "no_port"]_vars

\* The second delivered message is the third event; the second event was
\* processed later than the first and not delivered, and the delta is taken
\* from it.
C16_Witness ==
  /\ kind = "in" /\ Len(delivered) = 2
  /\ delivered[1].ev = 1 /\ delivered[2].ev = 3
  /\ delivered[2].last > delivered[1].time
  /\ delivered[2].timestamp = ToSeconds(delivered[2].time - delivered[2].last)

(***************************************************************************)
(* C17: an output instance creates its ringbuffer pair once: whatever      *)
(* public operations are called, with the server reachable or not, no      *)
(* second pair is created, so that send_message always writes to the pair  *)
(* created first and no connect discards what is buffered.                 *)
(***************************************************************************)
C17_RingCreatedOnce ==
  kind = "out" => rbCreated = 1

(***************************************************************************)
(* SpecTeardown: one instance of either kind from its constructor to the   *)
(* end of its destructor, with the real-time thread.                       *)
(***************************************************************************)
NextTeardown ==
  \/ \E ok \in BOOLEAN : out_open_virtual_port(ok)
  \/ out_send_message_payload(<<1, 2>>)
  \/ out_send_message_size
  \/ out_close_port
  \/ out_close_port_acked
  \/ out_close_port_timeout
  \/ out_close_port_unregister
  \/ out_close_port_clear
  \/ jackProcessOut_enter
  \/ jackProcessOut_buffer
  \/ jackProcessOut_read_size
  \/ jackProcessOut_read_message
  \/ jackProcessOut_loop_exit
  \/ jackProcessOut_handshake
  \/ jackProcessOut_read_freed
  \/ out_destructor
  \/ out_destructor_free
  \/ out_destructor_client_close
  \/ \E ok \in BOOLEAN : in_open_virtual_port(ok)
  \/ in_close_port
  \/ in_close_port_clear
  \/ \E n \in 0..1 : jackProcessIn_enter(n)
  \/ jackProcessIn_event
  \/ jackProcessIn_return
  \/ in_destructor
  \/ in_destructor_client_close

SpecTeardown == InitNoPeers /\ [][NextTeardown]_vars

\* The destructor has returned.
Destroyed == upc = "destroyed"

(***************************************************************************)
(* C18: at teardown the port, if one is registered, is unregistered once   *)
(* and before the client is closed; the client is closed once, and only if *)
(* the instance was connected; and the ringbuffers of an output instance   *)
(* are not freed while an invocation of the process callback that reads    *)
(* them can still run.                                                     *)
(***************************************************************************)
C18_TeardownNesting ==
  /\ \A i, j \in 1..Len(unregLog) : unregLog[i] = unregLog[j] => i = j
  /\ clientClosed > 0 => (regPorts = {} /\ port = NULL)
  /\ Destroyed =>
       /\ regPorts = {} /\ port = NULL
       /\ clientClosed = (IF client # NULL THEN 1 ELSE 0)
  /\ (kind = "out" /\ ringFreed > 0 /\ Activated) =>
        rpc \notin {"buffer", "loop", "read_message", "crashed"}

(***************************************************************************)
(* C19: every output close_port that finds a port open starts with both    *)
(* sem_needpost and sem_cleanup un-signalled, whatever opens, closes,      *)
(* timeouts and callback invocations came before.                          *)
(***************************************************************************)
C19_NoSignalLeak ==
  [][(out_close_port /\ port # NULL) =>
        (sem_needpost = 0 /\ sem_cleanup = 0)]_vars

\* No message was sent with a port registered, the port registered first is
\* still the only one there has been, and an invocation of the callback that
\* found it has returned.
FirstInvocationWithPortDone ==
  /\ kind = "out" /\ sentNoPort /\ ~sentWithPort
  /\ unregLog = <<>> /\ rlast = "returned"

(***************************************************************************)
(* C20: an invocation of the output callback with no port registered       *)
(* returns at once and leaves both ringbuffers and both semaphores as they *)
(* are; the messages sent with no port registered are written, in send     *)
(* order, by the first invocation after a port is registered.              *)
(***************************************************************************)
C20_BufferedUntilOpen ==
  [][/\ (jackProcessOut_enter /\ port = NULL) =>
          /\ UNCHANGED <<buffSize, buffMessage, sem_cleanup, sem_needpost>>
          /\ rpc' = "idle"
     /\ FirstInvocationWithPortDone' => AllEmitted']_vars

=============================================================================
